---- MODULE Spec2Model ----
(***************************************************************************)
(* Model of the copy / cut clipboard handlers of the editor:               *)
(*   src/src/component/handlers/edit/editOnCut.js  (editOnCut, source)     *)
(*   src/unnamed/part_000                          (editOnCut, compiled)   *)
(*   src/lib/editOnCopy.js                         (editOnCopy, compiled)  *)
(* src/unnamed/part_001 is an earlier build of editOnCopy, without the     *)
(* identity remapping and the nested-list fold; it is not modelled.        *)
(*                                                                         *)
(* Markup strings are sequences of tokens.  A token is a record            *)
(* [tag, key, text]: the structural tags "<ul>", "</ul>", "<li>", "</li>", *)
(* the outerHTML of a block element cloned from the live DOM ("block",     *)
(* addressed by the live block key of its data-offset-key marker), and     *)
(* the outerHTML of a synthesized <div> ("div", with its innerHTML).       *)
(***************************************************************************)
EXTENDS Integers, Sequences, FiniteSets, TLC

\* ------------------------------------------------------------------ bounds
MaxBlocks == 2      \* blocks of the live document
DocMaxIndent == 1   \* largest data.indent of a block of the live document
MaxFragLen == 4     \* blocks of a fragment handed to the nested-list fold
MaxIndent == 2      \* largest data.indent of a block handed to the fold
MaxPending == 2     \* setTimeout callbacks pending at once

VARIABLES
    latestEditorState,  \* editor._latestEditorState
    clipboard,          \* the editor's clipboard cache (setClipboard)
    mode,               \* the editor's event mode (setMode / exitCurrentMode)
    timers,             \* pending setTimeout(..., 0) callbacks, in FIFO order
    dom,                \* the editor DOM: "rendered", or "mutated" natively
    task,               \* the task that ran last
    defaultPrevented,   \* e.defaultPrevented of the event of the last task
    clipboardData,      \* e.clipboardData of the event of the last task
    captured,           \* el of the last task: the live keys whose block
                        \* element is in the captured subtree
    calls,              \* the calls the last task made, in order
    reduce              \* the nested-list fold, one block at a time

vars == <<latestEditorState, clipboard, mode, timers, dom, task,
          defaultPrevented, clipboardData, captured, calls, reduce>>

\* ------------------------------------------------------------------ markup
\* Block keys are integers: live keys 1, 2, ...; the keys of a fragment are
\* freshly generated and are the negative integers; NoKey is "undefined".
NoKey == 0

Tok(tag, key, text) == [tag |-> tag, key |-> key, text |-> text]
UL == Tok("<ul>", NoKey, <<>>)
ENDUL == Tok("</ul>", NoKey, <<>>)
LI == Tok("<li>", NoKey, <<>>)
ENDLI == Tok("</li>", NoKey, <<>>)

\* '<ul>'.repeat(n)
RECURSIVE Repeat(_, _)
Repeat(tok, n) == IF n <= 0 THEN <<>> ELSE <<tok>> \o Repeat(tok, n - 1)

\* An element of blockKeyToElementMap: either the element found in the
\* captured subtree (kind "block", the live key of its marker) or the
\* synthesized div (kind "div", innerHTML = the fragment block's text).
FoundElement(liveKey) == [kind |-> "block", key |-> liveKey, innerHTML |-> <<>>]
FallbackElement(text) == [kind |-> "div", key |-> NoKey, innerHTML |-> text]

\* element.outerHTML
OuterHTML(element) == <<Tok(element.kind, element.key, element.innerHTML)>>

\* ------------------------------------------------------------------ blocks
\* block.getIn(['data', 'indent'], 0): the indent, 0 when the data map has none
GetIndent(block) == IF block.data.hasIndent THEN block.data.indent ELSE 0

BlockData == [hasIndent : {TRUE}, indent : 0..MaxIndent]
               \cup {[hasIndent |-> FALSE, indent |-> 0]}

\* ------------------------------------------------- document model (editor)
\* The collaborators below live outside these handlers; they are modelled
\* from their contracts.

\* A block of the live document with key k: its text is the one character k.
LiveBlock(k, data) == [key |-> k, text |-> <<k>>, data |-> data]

DocBlockData == [hasIndent : {TRUE}, indent : 1..DocMaxIndent]
                  \cup {[hasIndent |-> FALSE, indent |-> 0]}

\* The documents the editor may be constructed with: 1..MaxBlocks blocks.
Documents ==
    UNION {{[i \in 1..n |-> LiveBlock(i, d[i])] : d \in [1..n -> DocBlockData]}
           : n \in 1..MaxBlocks}

\* contentState.getBlockMap().keySeq()
KeySeq(blocks) == [i \in 1..Len(blocks) |-> blocks[i].key]

\* Position of a key in a key sequence (0 when absent)
IndexOf(keys, key) ==
    IF \E i \in 1..Len(keys) : keys[i] = key
    THEN CHOOSE i \in 1..Len(keys) : keys[i] = key
    ELSE 0

\* The selections over the blocks, start not after end: every selection
\* inside one block; across blocks, from the start of the first to the end
\* of the last, and from the end of the first to the start of the last.
\* (No text is longer than MaxBlocks: the document holds MaxBlocks characters.)
SelectionsOf(blocks) ==
    {[startKey |-> blocks[i].key, startOffset |-> so,
      endKey |-> blocks[j].key, endOffset |-> eo] :
        <<i, j, so, eo>> \in
          {q \in (1..Len(blocks)) \X (1..Len(blocks)) \X (0..MaxBlocks) \X (0..MaxBlocks) :
             /\ q[1] <= q[2]
             /\ q[3] <= Len(blocks[q[1]].text)
             /\ q[4] <= Len(blocks[q[2]].text)
             /\ (q[1] = q[2] => q[3] <= q[4])
             /\ (q[1] < q[2] => (q[3] = 0 /\ q[4] = Len(blocks[q[2]].text))
                                \/ (q[3] = Len(blocks[q[1]].text) /\ q[4] = 0))}}

\* selection.isCollapsed()
IsCollapsed(selection) ==
    /\ selection.startKey = selection.endKey
    /\ selection.startOffset = selection.endOffset

\* A fragment: the value getFragmentFromSelection returns (null when the
\* selection is collapsed).
NullFragment == [isNull |-> TRUE, blocks |-> <<>>]

\* getFragmentFromSelection(editorState): the selected blocks in document
\* order, first and last truncated to the selection, data kept, keys fresh.
GetFragmentFromSelection(editorState) ==
    LET blocks == editorState.blocks
        sel == editorState.selection
        s == IndexOf(KeySeq(blocks), sel.startKey)
        e == IndexOf(KeySeq(blocks), sel.endKey)
        Slice(i) ==
            LET t == blocks[i].text
                from == IF i = s THEN sel.startOffset + 1 ELSE 1
                to == IF i = e THEN sel.endOffset ELSE Len(t)
            IN SubSeq(t, from, to)
    IN IF IsCollapsed(sel) THEN NullFragment
       ELSE [isNull |-> FALSE,
             blocks |-> [n \in 1..(e - s + 1) |->
                           [key |-> -n, text |-> Slice(s + n - 1),
                            data |-> blocks[s + n - 1].data]]]

\* window.getSelection().toString(): the plain text of the live selection,
\* one entry per selected block.
SelectionToString(editorState) ==
    LET f == GetFragmentFromSelection(editorState)
    IN [n \in 1..Len(f.blocks) |-> f.blocks[n].text]

\* DraftModifier.removeRange(content, selection, 'forward'): the content
\* with the selected range removed (the start block keeps its key and takes
\* what is left of the end block), and its selectionAfter, collapsed at the
\* start of the range
RemoveRange(blocks, sel) ==
    LET s == IndexOf(KeySeq(blocks), sel.startKey)
        e == IndexOf(KeySeq(blocks), sel.endKey)
        merged == [blocks[s] EXCEPT
                     !.text = SubSeq(blocks[s].text, 1, sel.startOffset)
                              \o SubSeq(blocks[e].text, sel.endOffset + 1,
                                        Len(blocks[e].text))]
    IN [blocks |-> SubSeq(blocks, 1, s - 1) \o <<merged>>
                   \o SubSeq(blocks, e + 1, Len(blocks)),
        selectionAfter |-> [startKey |-> sel.startKey,
                            startOffset |-> sel.startOffset,
                            endKey |-> sel.startKey,
                            endOffset |-> sel.startOffset]]

\* EditorState.push(editorState, newContent, changeType)
Push(editorState, newContent, changeType) ==
    [blocks |-> newContent.blocks, selection |-> newContent.selectionAfter,
     lastChangeType |-> changeType]

\* removeFragment(editorState)
RemoveFragment(editorState) ==
    Push(editorState,
         RemoveRange(editorState.blocks, editorState.selection),
         "remove-range")

\* The editor states the editor may be constructed with.
EditorStates ==
    UNION {{[blocks |-> b, selection |-> sel, lastChangeType |-> "none"]
            : sel \in SelectionsOf(b)} : b \in Documents}

\* ------------------------------------------------------ identity remapping
\* keySeq.skipUntil(item => item === key)
RECURSIVE SkipUntil(_, _)
SkipUntil(keys, key) ==
    IF keys = <<>> \/ Head(keys) = key THEN keys ELSE SkipUntil(Tail(keys), key)

\* keySeq.takeUntil(item => item === key)
RECURSIVE TakeUntil(_, _)
TakeUntil(keys, key) ==
    IF keys = <<>> \/ Head(keys) = key THEN <<>>
    ELSE <<Head(keys)>> \o TakeUntil(Tail(keys), key)

\* selectedBlockKeys: the live keys from the start key to the end key
SelectedBlockKeysNoSkip(editorState) ==
    TakeUntil(KeySeq(editorState.blocks), editorState.selection.endKey)
        \o <<editorState.selection.endKey>>

SelectedBlockKeys(editorState) ==
    TakeUntil(SkipUntil(KeySeq(editorState.blocks), editorState.selection.startKey),
              editorState.selection.endKey)
        \o <<editorState.selection.endKey>>

\* keyMap[item], for the keyMap built by
\* selectedBlockKeys.reduce((acc, item, index) => ({...acc, [fragmentKeys[index]]: item}))
\* (a later entry of the same name replaces an earlier one; NoKey when absent)
KeyMapGet(selectedBlockKeys, fragmentKeys, item) ==
    LET at == {i \in 1..Len(selectedBlockKeys) :
                 i <= Len(fragmentKeys) /\ fragmentKeys[i] = item}
    IN IF at = {} THEN NoKey
       ELSE selectedBlockKeys[CHOOSE i \in at : \A j \in at : j <= i]

\* blockKeyToElementMap: for each fragment key, el.querySelector of the
\* marker "{keyMap[item]}-0-0", or a new div whose innerHTML is the text of
\* the fragment block.  el is the set of live keys whose block element is in
\* the captured subtree.
BlockKeyToElementMap(editorState, fragment, el) ==
    LET fragmentKeys == KeySeq(fragment.blocks)
        selectedBlockKeys == SelectedBlockKeys(editorState)
    IN [item \in {fragmentKeys[i] : i \in 1..Len(fragmentKeys)} |->
          LET liveKey == KeyMapGet(selectedBlockKeys, fragmentKeys, item)
          IN IF liveKey \in el
             THEN FoundElement(liveKey)
             ELSE FallbackElement(
                      fragment.blocks[IndexOf(fragmentKeys, item)].text)]

\* ---------------------------------------------------------- nested-list fold
\* The reducer of content.getBlocksAsArray().reduce(...): one block.
FoldStepNoClose(acc, item, blockKeyToElementMap) ==
    LET indent == GetIndent(item)
        html0 == OuterHTML(blockKeyToElementMap[item.key])
        html1 == IF indent # 0 THEN <<LI>> \o html0 \o <<ENDLI>> ELSE html0
        sunkDepth == indent - acc.lastIndentation
        html2 == IF sunkDepth > 0 THEN Repeat(UL, sunkDepth) \o html1 ELSE html1
    IN [lastIndentation |-> indent, html |-> acc.html \o html2]

FoldStepAlwaysItem(acc, item, blockKeyToElementMap) ==
    LET indent == GetIndent(item)
        html0 == OuterHTML(blockKeyToElementMap[item.key])
        html1 == <<LI>> \o html0 \o <<ENDLI>>
        sunkDepth == indent - acc.lastIndentation
        html2 == IF sunkDepth > 0 THEN Repeat(UL, sunkDepth) \o html1 ELSE html1
        html3 == IF sunkDepth < 0 THEN Repeat(ENDUL, -sunkDepth) \o html2 ELSE html2
    IN [lastIndentation |-> indent, html |-> acc.html \o html3]

FoldStepOneLevel(acc, item, blockKeyToElementMap) ==
    LET indent == GetIndent(item)
        html0 == OuterHTML(blockKeyToElementMap[item.key])
        html1 == IF indent # 0 THEN <<LI>> \o html0 \o <<ENDLI>> ELSE html0
        sunkDepth == indent - acc.lastIndentation
        html2 == IF sunkDepth > 0 THEN <<UL>> \o html1 ELSE html1
        html3 == IF sunkDepth < 0 THEN <<ENDUL>> \o html2 ELSE html2
    IN [lastIndentation |-> indent, html |-> acc.html \o html3]

FoldStep(acc, item, blockKeyToElementMap) ==
    LET indent == GetIndent(item)
        html0 == OuterHTML(blockKeyToElementMap[item.key])
        html1 == IF indent # 0 THEN <<LI>> \o html0 \o <<ENDLI>> ELSE html0
        sunkDepth == indent - acc.lastIndentation
        html2 == IF sunkDepth > 0 THEN Repeat(UL, sunkDepth) \o html1 ELSE html1
        html3 == IF sunkDepth < 0 THEN Repeat(ENDUL, -sunkDepth) \o html2 ELSE html2
    IN [lastIndentation |-> indent, html |-> acc.html \o html3]

\* The initial accumulator {lastIndentation: 0, html: ''}
FoldInitial == [lastIndentation |-> 0, html |-> <<>>]

\* blocks.reduce(FoldStep, FoldInitial) over the first n blocks
RECURSIVE Reduce(_, _, _)
Reduce(blocks, n, blockKeyToElementMap) ==
    IF n = 0 THEN FoldInitial
    ELSE FoldStep(Reduce(blocks, n - 1, blockKeyToElementMap), blocks[n],
                  blockKeyToElementMap)

\* ------------------------------------------------------- clipboard payload
\* Number of occurrences of a token in a markup string
RECURSIVE Count(_, _)
Count(html, tok) ==
    IF html = <<>> THEN 0
    ELSE (IF Head(html) = tok THEN 1 ELSE 0) + Count(Tail(html), tok)

\* outputElement.innerHTML = html, read back through outerHTML: the HTML
\* parser closes the lists the string leaves open
ParseInnerHTML(html) == html \o Repeat(ENDUL, Count(html, UL) - Count(html, ENDUL))

\* JSON.stringify(convertFromDraftStateToRaw(content))
Serialise(content) == [blocks |-> content, entityMap |-> <<>>]

PreWrap == "white-space: pre-wrap;"

\* The markup of the children of el: the captured block elements that are
\* left after the contenteditable=false elements are removed, in document order
ChildrenOf(editorState, el) ==
    LET keys == SelectSeq(KeySeq(editorState.blocks), LAMBDA k : k \in el)
    IN [i \in 1..Len(keys) |-> Tok("block", keys[i], <<>>)]

\* A fresh e.clipboardData (absent on IE11): no channel written
NewClipboardData(present) == [present |-> present, plain |-> <<>>, html |-> <<>>]

\* e.clipboardData.setData(format, value)
SetData(cd, format, value) ==
    IF format = "text/plain" THEN [cd EXCEPT !.plain = <<value>>]
    ELSE [cd EXCEPT !.html = <<value>>]

\* outputElement: createElement('div'), setAttribute('data-editor-content'),
\* then the style attribute is set, on fragmentElt
OutputElement(serialisedContent, html) ==
    [dataEditorContent |-> <<serialisedContent>>, style |-> <<>>,
     innerHTML |-> ParseInnerHTML(html)]

\* The body of `if (e.clipboardData && fragment)` up to the last setData:
\* the clipboardData it leaves
WriteClipboardData(editorState, fragment, el, cd) ==
    LET content == fragment.blocks
        serialisedContent == Serialise(content)
        fragmentElt == [dataEditorContent |-> <<serialisedContent>>,
                        style |-> <<PreWrap>>,
                        innerHTML |-> ChildrenOf(editorState, el)]
        cd1 == SetData(cd, "text/plain", SelectionToString(editorState))
        cd2 == SetData(cd1, "text/html", fragmentElt)
        blockKeyToElementMap == BlockKeyToElementMap(editorState, fragment, el)
        inner == Reduce(content, Len(content), blockKeyToElementMap)
    IN SetData(cd2, "text/html", OutputElement(serialisedContent, inner.html))

\* The calls that body makes, in order
WriteCalls(fragment) ==
    <<"createFromBlockArray", "convertFromDraftStateToRaw", "cloneContents",
      "setData:text/plain", "setData:text/html">>
    \o [i \in 1..Len(fragment.blocks) |-> "querySelector"]
    \o <<"reduce", "setData:text/html", "preventDefault">>

\* `e.clipboardData && fragment`: whether the block that writes the payload,
\* and calls e.preventDefault() last, is entered
WritesPayloadAlways(cd, fragment) == TRUE

WritesPayload(cd, fragment) == cd.present /\ ~fragment.isNull

\* --------------------------------------------------------------- the editor
\* `if (selection.isCollapsed())`: no selection, nothing to copy or cut
NothingSelectedNever(selection) == FALSE

NothingSelected(selection) == IsCollapsed(selection)

\* editor.setClipboard(fragment): the cache slot after the call
SetClipboardIfEmpty(slot, fragment) == IF slot.isNull THEN fragment ELSE slot

SetClipboard(slot, fragment) == fragment

\* setTimeout(callback, 0)
SetTimeoutNever(queue, callback) == queue

SetTimeout(queue, callback) == Append(queue, callback)

\* The calls of the callback handed to setTimeout
RecoveryCallsUpdateFirst == <<"update", "restoreEditorDOM", "exitCurrentMode">>

RecoveryCalls == <<"restoreEditorDOM", "exitCurrentMode", "update">>

\* The browser's default action of the event, unless prevented: a native
\* cut deletes the selected DOM; a native copy leaves the DOM alone
DefaultAction(type, prevented, d) ==
    IF type = "cut" /\ ~prevented THEN "mutated" ELSE d

Idle == [blocks |-> <<>>, elements |-> <<>>, i |-> 0, acc |-> FoldInitial]

Init ==
    /\ latestEditorState \in EditorStates
    /\ clipboard = NullFragment
    /\ mode = "edit"
    /\ timers = <<>>
    /\ dom = "rendered"
    /\ task = "init"
    /\ defaultPrevented = FALSE
    /\ clipboardData = NewClipboardData(FALSE)
    /\ captured = {}
    /\ calls = <<>>
    /\ reduce = Idle

\* editOnCopy(editor, e); el: the live keys whose block element is in
\* getRangeAt(0).cloneContents() and is left there once the
\* contenteditable=false elements are removed
editOnCopy(hasClipboardData, el) ==
    LET editorState == latestEditorState
        selection == editorState.selection
        cd == NewClipboardData(hasClipboardData)
        fragment == GetFragmentFromSelection(editorState)
    IN /\ task' = "copy"
       /\ IF NothingSelected(selection)
          THEN /\ defaultPrevented' = TRUE
               /\ calls' = <<"preventDefault">>
               /\ clipboardData' = cd
               /\ captured' = {}
               /\ clipboard' = clipboard
          ELSE /\ clipboard' = SetClipboard(clipboard, fragment)
               /\ IF WritesPayload(cd, fragment)
                  THEN /\ clipboardData' = WriteClipboardData(editorState, fragment, el, cd)
                       /\ calls' = <<"getFragmentFromSelection", "setClipboard">>
                                   \o WriteCalls(fragment)
                       /\ captured' = el
                       /\ defaultPrevented' = TRUE
                  ELSE /\ clipboardData' = cd
                       /\ captured' = {}
                       /\ calls' = <<"getFragmentFromSelection", "setClipboard">>
                       /\ defaultPrevented' = FALSE
       /\ dom' = DefaultAction("copy", defaultPrevented', dom)
       /\ UNCHANGED <<latestEditorState, mode, timers, reduce>>

\* editOnCut(editor, e); targetIsNode: e.target instanceof Node, which holds
\* of every event the editor's DOM dispatches
editOnCut(targetIsNode, hasClipboardData, el) ==
    LET editorState == latestEditorState
        selection == editorState.selection
        cd == NewClipboardData(hasClipboardData)
        scrollPosition == IF targetIsNode THEN <<"scrollPosition">> ELSE <<>>
        fragment == GetFragmentFromSelection(editorState)
        callback == [editorState |-> editorState, scrollPosition |-> scrollPosition]
        before == (IF targetIsNode THEN <<"getScrollPosition">> ELSE <<>>)
                  \o <<"getFragmentFromSelection", "setClipboard", "setMode",
                       "setTimeout">>
    IN /\ task' = "cut"
       /\ IF NothingSelected(selection)
          THEN /\ defaultPrevented' = TRUE
               /\ calls' = <<"preventDefault">>
               /\ clipboardData' = cd
               /\ captured' = {}
               /\ UNCHANGED <<clipboard, mode, timers>>
          ELSE /\ Len(timers) < MaxPending
               /\ clipboard' = SetClipboard(clipboard, fragment)
               /\ mode' = "cut"
               /\ timers' = SetTimeout(timers, callback)
               /\ IF WritesPayload(cd, fragment)
                  THEN /\ clipboardData' = WriteClipboardData(editorState, fragment, el, cd)
                       /\ calls' = before \o WriteCalls(fragment)
                       /\ captured' = el
                       /\ defaultPrevented' = TRUE
                  ELSE /\ clipboardData' = cd
                       /\ captured' = {}
                       /\ calls' = before
                       /\ defaultPrevented' = FALSE
       /\ dom' = DefaultAction("cut", defaultPrevented', dom)
       /\ UNCHANGED <<latestEditorState, reduce>>

\* The callback of setTimeout, run in a later task:
\*   editor.restoreEditorDOM(scrollPosition); editor.exitCurrentMode();
\*   editor.update(removeFragment(editorState))
RecoverFromLatest ==
    /\ timers # <<>>
    /\ latestEditorState' = RemoveFragment(latestEditorState)
    /\ timers' = Tail(timers)
    /\ dom' = "rendered"
    /\ mode' = "edit"
    /\ calls' = RecoveryCalls
    /\ task' = "timeout"
    /\ defaultPrevented' = FALSE
    /\ clipboardData' = NewClipboardData(FALSE)
    /\ captured' = {}
    /\ UNCHANGED <<clipboard, reduce>>

Recover ==
    /\ timers # <<>>
    /\ LET callback == Head(timers)
       IN latestEditorState' = RemoveFragment(callback.editorState)
    /\ timers' = Tail(timers)
    /\ dom' = "rendered"
    /\ mode' = "edit"
    /\ calls' = RecoveryCalls
    /\ task' = "timeout"
    /\ defaultPrevented' = FALSE
    /\ clipboardData' = NewClipboardData(FALSE)
    /\ captured' = {}
    /\ UNCHANGED <<clipboard, reduce>>

\* Anything else that replaces the editor state between two tasks (the user
\* moves the selection): editor.update(newState)
Select(selection) ==
    /\ selection # latestEditorState.selection
    /\ latestEditorState' = [latestEditorState EXCEPT !.selection = selection]
    /\ task' = "select"
    /\ calls' = <<"update">>
    /\ defaultPrevented' = FALSE
    /\ clipboardData' = NewClipboardData(FALSE)
    /\ captured' = {}
    /\ UNCHANGED <<clipboard, mode, timers, dom, reduce>>

\* What el may hold when the handler reaches the capture: the block elements
\* of any of the live keys (nothing is cloned on the paths that return
\* before it)
Clones(hasClipboardData) ==
    IF hasClipboardData /\ ~IsCollapsed(latestEditorState.selection)
    THEN SUBSET {latestEditorState.blocks[i].key
                   : i \in 1..Len(latestEditorState.blocks)}
    ELSE {{}}

Copy ==
    \E hasClipboardData \in BOOLEAN :
    \E el \in Clones(hasClipboardData) :
        editOnCopy(hasClipboardData, el)

Cut ==
    \E targetIsNode \in {TRUE}, hasClipboardData \in BOOLEAN :
    \E el \in Clones(hasClipboardData) :
        editOnCut(targetIsNode, hasClipboardData, el)

ChangeSelection == \E selection \in SelectionsOf(latestEditorState.blocks) : Select(selection)

Next == Copy \/ Cut \/ Recover \/ ChangeSelection

Spec == Init /\ [][Next]_vars

\* ------------------------------------------- the nested-list fold, stepwise
\* The fragments handed to the fold: 1..MaxFragLen blocks, fresh keys, any
\* indent (or none) on each block.
FoldFragments ==
    UNION {{[i \in 1..n |-> [key |-> -i, text |-> <<i>>, data |-> d[i]]]
            : d \in [1..n -> BlockData]} : n \in 1..MaxFragLen}

\* blockKeyToElementMap of such a fragment: every element found in the
\* captured subtree, or every element synthesized
FoldElements(blocks, found) ==
    [k \in {blocks[i].key : i \in 1..Len(blocks)} |->
        IF found THEN FoundElement(-k)
        ELSE FallbackElement(blocks[IndexOf(KeySeq(blocks), k)].text)]

FoldInit ==
    /\ latestEditorState = [blocks |-> <<>>,
                            selection |-> [startKey |-> NoKey, startOffset |-> 0,
                                           endKey |-> NoKey, endOffset |-> 0],
                            lastChangeType |-> "none"]
    /\ clipboard = NullFragment
    /\ mode = "edit"
    /\ timers = <<>>
    /\ dom = "rendered"
    /\ task = "init"
    /\ defaultPrevented = FALSE
    /\ clipboardData = NewClipboardData(FALSE)
    /\ captured = {}
    /\ calls = <<>>
    /\ \E blocks \in FoldFragments, found \in BOOLEAN :
          reduce = [blocks |-> blocks, elements |-> FoldElements(blocks, found),
                    i |-> 0, acc |-> FoldInitial]

\* One call of the reducer: the next block of content.getBlocksAsArray()
ReduceStep ==
    /\ reduce.i < Len(reduce.blocks)
    /\ reduce' = [reduce EXCEPT
                    !.i = reduce.i + 1,
                    !.acc = FoldStep(reduce.acc, reduce.blocks[reduce.i + 1],
                                     reduce.elements)]
    /\ UNCHANGED <<latestEditorState, clipboard, mode, timers, dom, task,
                   defaultPrevented, clipboardData, captured, calls>>

FoldNext == ReduceStep

FoldSpec == FoldInit /\ [][FoldNext]_vars

\* ------------------------------------------------------------------ claims
\* Indent of the i-th block handed to the fold, 0 before the first
FoldIndent(i) == IF i = 0 THEN 0 ELSE GetIndent(reduce.blocks[i])

\* Rendered markup of the i-th block handed to the fold
FoldMarkup(i) == OuterHTML(reduce.elements[reduce.blocks[i].key])

\* What the claim says the fold adds for block i
ExpectedPiece(i) ==
    LET d == FoldIndent(i)
        p == FoldIndent(i - 1)
    IN (IF d - p > 0 THEN Repeat(UL, d - p)
        ELSE IF d - p < 0 THEN Repeat(ENDUL, p - d) ELSE <<>>)
       \o (IF d > 0 THEN <<LI>> \o FoldMarkup(i) \o <<ENDLI>> ELSE FoldMarkup(i))

RECURSIVE ExpectedMarkup(_)
ExpectedMarkup(n) == IF n = 0 THEN <<>> ELSE ExpectedMarkup(n - 1) \o ExpectedPiece(n)

FoldIndents == [i \in 1..Len(reduce.blocks) |-> FoldIndent(i)]

FoldDone == reduce.i = Len(reduce.blocks) /\ reduce.i > 0

\* C1: the markup the fold has accumulated after any number of blocks is the
\* concatenation, in block order, of the list tags for the change of indent
\* followed by the block's markup, wrapped in <li> exactly when its indent
\* is positive; indents [0,1,1,0] give B0<ul><li>B1</li><li>B2</li></ul>B3,
\* and a fragment whose indents are all 0 has no <ul>, </ul>, <li> or </li>.
C1_FoldMarkup ==
    /\ reduce.acc.html = ExpectedMarkup(reduce.i)
    /\ (FoldDone /\ FoldIndents = <<0, 1, 1, 0>>) =>
          reduce.acc.html =
              FoldMarkup(1) \o <<UL, LI>> \o FoldMarkup(2) \o <<ENDLI, LI>>
              \o FoldMarkup(3) \o <<ENDLI, ENDUL>> \o FoldMarkup(4)
    /\ (FoldDone /\ \A i \in 1..Len(reduce.blocks) : FoldIndent(i) = 0) =>
          \A j \in 1..Len(reduce.acc.html) :
              reduce.acc.html[j] \notin {UL, ENDUL, LI, ENDLI}

C1_Witness ==
    /\ FoldDone
    /\ FoldIndents = <<0, 1, 1, 0>>
    /\ Count(reduce.acc.html, UL) = 1
    /\ Count(reduce.acc.html, LI) = 2

\* C2: after any prefix of the blocks, the <ul> emitted minus the </ul>
\* emitted is the indent of the last processed block, no </ul> comes before
\* its <ul>, and so a fragment ending at indent d leaves d <ul> unclosed.
C2_OpenLists ==
    /\ Count(reduce.acc.html, UL) - Count(reduce.acc.html, ENDUL)
         = FoldIndent(reduce.i)
    /\ reduce.acc.lastIndentation = FoldIndent(reduce.i)
    /\ \A n \in 0..Len(reduce.acc.html) :
          Count(SubSeq(reduce.acc.html, 1, n), ENDUL)
            <= Count(SubSeq(reduce.acc.html, 1, n), UL)

C2_Witness ==
    /\ FoldDone
    /\ FoldIndent(reduce.i) = MaxIndent
    /\ Count(reduce.acc.html, ENDUL) > 0
    /\ Count(reduce.acc.html, UL) - Count(reduce.acc.html, ENDUL) = MaxIndent

\* C3 as claimed: indents [0,2] give B0<ul><ul><li>B1</li></ul></ul>
C3_AsClaimed ==
    (FoldDone /\ FoldIndents = <<0, 2>>) =>
        reduce.acc.html = FoldMarkup(1) \o <<UL, UL, LI>> \o FoldMarkup(2)
                          \o <<ENDLI, ENDUL, ENDUL>>

\* C3 amended: indents [0,2] give B0<ul><ul><li>B1</li>: two <ul> opened in
\* one step, no list item between them, and neither closed by the fold.
C3_MultiLevelJump ==
    (FoldDone /\ FoldIndents = <<0, 2>>) =>
        reduce.acc.html = FoldMarkup(1) \o <<UL, UL, LI>> \o FoldMarkup(2)
                          \o <<ENDLI>>

C3_Witness ==
    /\ FoldDone
    /\ FoldIndents = <<0, 2>>
    /\ Count(reduce.acc.html, UL) = 2

\* The handlers and the recovery callback alone, from every editor state the
\* editor may be constructed with: no other update comes between the tasks
HandlersNext == Copy \/ Cut \/ Recover

HandlersSpec == Init /\ [][HandlersNext]_vars

\* The scheduler runs every pending setTimeout callback
FairSpec == Spec /\ WF_vars(Recover)

HandlersFairSpec == HandlersSpec /\ WF_vars(Recover)

\* The selection the handler of the last task read (no handler changes
\* latestEditorState; only the recovery callback and update do)
Collapsed == IsCollapsed(latestEditorState.selection)

\* The last task was a copy or cut handler
Handled == task \in {"copy", "cut"}

\* The calls of the recovery callback
RecoveryCallNames == {"restoreEditorDOM", "exitCurrentMode", "update"}

\* The calls of serialization, capture, remapping and reconstruction
WriteCallNames ==
    {"createFromBlockArray", "convertFromDraftStateToRaw", "cloneContents",
     "setData:text/plain", "setData:text/html", "querySelector", "reduce"}

CallSet(cs) == {cs[i] : i \in 1..Len(cs)}

\* C4: a cut with a selection schedules exactly one recovery callback and
\* applies nothing of it in its own task; a cut without a selection schedules
\* none; nothing else schedules or drops one; the callback, run in a later
\* task, calls restoreEditorDOM, exitCurrentMode and update in that order,
\* installing the range-removed state; the document changes in no other task.
C4_DeferredRecovery ==
    [][ /\ (task' = "cut" /\ ~Collapsed) =>
              /\ Len(timers') = Len(timers) + 1
              /\ timers'[Len(timers')].editorState = latestEditorState
              /\ SubSeq(timers', 1, Len(timers)) = timers
              /\ CallSet(calls') \cap RecoveryCallNames = {}
              /\ latestEditorState' = latestEditorState
        /\ (task' = "cut" /\ Collapsed) => timers' = timers
        /\ (task' = "timeout") =>
              /\ timers # <<>>
              /\ timers' = Tail(timers)
              /\ calls' = <<"restoreEditorDOM", "exitCurrentMode", "update">>
              /\ latestEditorState' = RemoveFragment(timers[1].editorState)
              /\ mode' = "edit"
              /\ dom' = "rendered"
        /\ (task' \notin {"cut", "timeout"}) => timers' = timers
        /\ (latestEditorState'.blocks # latestEditorState.blocks) => task' = "timeout"
      ]_vars

C4_Witness ==
    /\ task = "timeout"
    /\ calls = <<"restoreEditorDOM", "exitCurrentMode", "update">>
    /\ latestEditorState.lastChangeType = "remove-range"
    /\ Len(latestEditorState.blocks) < MaxBlocks
    /\ timers = <<>>

\* C5: a copy or cut with a collapsed selection leaves the clipboard cache,
\* the mode, the document, the DOM and the pending callbacks as they were,
\* writes no channel of the event's clipboardData, and calls preventDefault.
C5_CollapsedNoOp ==
    [][ (task' \in {"copy", "cut"} /\ Collapsed) =>
            /\ clipboard' = clipboard
            /\ clipboardData'.plain = <<>>
            /\ clipboardData'.html = <<>>
            /\ mode' = mode
            /\ latestEditorState' = latestEditorState
            /\ timers' = timers
            /\ dom' = dom
            /\ defaultPrevented'
            /\ calls' = <<"preventDefault">>
      ]_vars

C5_Witness ==
    /\ Handled
    /\ Collapsed
    /\ ~clipboard.isNull
    /\ defaultPrevented
    /\ clipboardData.present

\* C6 as claimed: with a selection, preventDefault is called in every branch
C6_AsClaimed == (Handled /\ ~Collapsed) => defaultPrevented

\* C6 amended: with a selection, preventDefault is called exactly when the
\* event has clipboardData and the fragment is not null, that is exactly
\* when the payload is written; otherwise the default action is left alone.
C6_PreventedIffWritten ==
    (Handled /\ ~Collapsed) =>
        /\ defaultPrevented <=> (clipboardData.present /\ ~clipboard.isNull)
        /\ defaultPrevented <=> (clipboardData.html # <<>>)
        /\ defaultPrevented <=> ("preventDefault" \in CallSet(calls))

C6_Witness ==
    /\ task = "copy"
    /\ ~Collapsed
    /\ ~clipboardData.present
    /\ ~defaultPrevented

\* C7: a cut with a selection never suppresses the default action, so the
\* native cut mutates the DOM before the recovery callback runs.
C7_NativeCutOccurs ==
    (task = "cut" /\ ~Collapsed) => (~defaultPrevented /\ dom = "mutated")

\* The live keys from the selection's start key to its end key, by position
LiveRange ==
    LET keys == KeySeq(latestEditorState.blocks)
    IN SubSeq(keys, IndexOf(keys, latestEditorState.selection.startKey),
              IndexOf(keys, latestEditorState.selection.endKey))

\* The block markup of the text/html channel, list tags left out
WrittenElements ==
    SelectSeq(clipboardData.html[1].innerHTML,
              LAMBDA t : t.tag \in {"block", "div"})

\* C8: the element used for the i-th fragment block is the captured element
\* marked with the i-th live key of the selected range, or, when the capture
\* has none, a new div holding that fragment block's text; the payload is
\* written with one element per fragment block either way.
C8_IdentityRemap ==
    (Handled /\ ~Collapsed /\ clipboardData.present) =>
        /\ clipboardData.html # <<>>
        /\ Len(WrittenElements) = Len(clipboard.blocks)
        /\ Len(LiveRange) = Len(clipboard.blocks)
        /\ \A i \in 1..Len(clipboard.blocks) :
              WrittenElements[i] =
                  IF LiveRange[i] \in captured
                  THEN Tok("block", LiveRange[i], <<>>)
                  ELSE Tok("div", NoKey, clipboard.blocks[i].text)

C8_Witness ==
    /\ Handled
    /\ clipboardData.html # <<>>
    /\ Len(clipboard.blocks) = 1
    /\ LiveRange[1] # latestEditorState.blocks[1].key
    /\ captured = {latestEditorState.blocks[1].key}
    /\ WrittenElements[1].tag = "div"

\* C9: after a copy or cut that writes the payload, text/html holds the
\* nested markup in a root element carrying data-editor-content and the
\* style 'white-space: pre-wrap;', and text/plain the selection's text.
C9_Payload ==
    (Handled /\ clipboardData.html # <<>>) =>
        /\ clipboardData.html[1].dataEditorContent = <<Serialise(clipboard.blocks)>>
        /\ clipboardData.html[1].style = <<PreWrap>>
        /\ clipboardData.plain = <<SelectionToString(latestEditorState)>>

\* C10: without clipboardData, a copy or cut with a selection writes no
\* channel and makes none of the calls of serialization, capture, remapping
\* or reconstruction, but sets the cache to the extracted fragment; a cut
\* still enters 'cut' mode and schedules the recovery, which then runs.
C10_Legacy == (Handled /\ ~Collapsed /\ ~clipboardData.present)

C10_NoClipboardData ==
    /\ [](C10_Legacy =>
            /\ clipboardData.plain = <<>>
            /\ clipboardData.html = <<>>
            /\ CallSet(calls) \cap WriteCallNames = {}
            /\ ~clipboard.isNull
            /\ clipboard = GetFragmentFromSelection(latestEditorState)
            /\ "setClipboard" \in CallSet(calls)
            /\ (task = "cut" =>
                  /\ mode = "cut"
                  /\ timers # <<>>
                  /\ timers[Len(timers)].editorState = latestEditorState))
    /\ ((C10_Legacy /\ task = "cut") ~>
          (task = "timeout" /\ calls = <<"restoreEditorDOM", "exitCurrentMode", "update">>))

C10_Witness ==
    /\ task = "cut"
    /\ ~Collapsed
    /\ ~clipboardData.present
    /\ clipboardData.html = <<>>
    /\ ~clipboard.isNull
    /\ mode = "cut"
    /\ Len(timers) = 1
    /\ dom = "mutated"

\* C11: the cache starts empty; every copy or cut with a selection sets it to
\* the fragment extracted from the editor state of that invocation, whether
\* or not the event has clipboardData; no other task changes it.  So it
\* always holds the fragment of the most recent such invocation.
C11_CacheLastWriteWins ==
    /\ clipboard = NullFragment
    /\ [][ /\ (task' \in {"copy", "cut"} /\ ~Collapsed) =>
                /\ clipboard' = GetFragmentFromSelection(latestEditorState)
                /\ ~clipboard'.isNull
           /\ ~(task' \in {"copy", "cut"} /\ ~Collapsed) => clipboard' = clipboard
         ]_vars

\* A copy without clipboardData has replaced an earlier fragment by another
C11_Witness ==
    /\ task = "copy"
    /\ ~Collapsed
    /\ ~clipboardData.present
    /\ clipboard = GetFragmentFromSelection(latestEditorState)
    /\ timers # <<>>
    /\ clipboard # GetFragmentFromSelection(timers[1].editorState)

\* C12: the callback a cut schedules holds the editor state of the cut
\* event, no later task alters it, and the state the recovery installs is the
\* cut-time document with the cut-time selection removed, pushed as
\* 'remove-range', whatever the editor's latest state is when it runs: a
\* change made in between (a new selection, a second cut) is overwritten.
C12_RecoveryUsesCutTimeState ==
    [][ /\ (task' = "cut" /\ ~Collapsed) =>
              /\ timers' # <<>>
              /\ timers'[Len(timers')].editorState = latestEditorState
        /\ \A i \in 1..Len(timers) :
              \/ (i <= Len(timers') /\ timers'[i] = timers[i])
              \/ (task' = "timeout" /\ i > 1 /\ timers'[i - 1] = timers[i])
              \/ (task' = "timeout" /\ i = 1)
        /\ (task' = "timeout") =>
              LET atCut == timers[1].editorState
                  removed == RemoveRange(atCut.blocks, atCut.selection)
              IN /\ latestEditorState'.blocks = removed.blocks
                 /\ latestEditorState'.selection = removed.selectionAfter
                 /\ latestEditorState'.lastChangeType = "remove-range"
      ]_vars

\* A first recovery has run while a second cut, started before it on another
\* selection of the same document, is still pending: the installed document
\* is the first cut's, and the pending callback still holds its own
C12_Witness ==
    /\ task = "timeout"
    /\ Len(timers) = 1
    /\ timers[1].editorState.blocks # latestEditorState.blocks
    /\ RemoveFragment(timers[1].editorState).blocks # latestEditorState.blocks
    /\ clipboard = GetFragmentFromSelection(timers[1].editorState)

====
